---------------------------- MODULE Spec2Model ----------------------------
(***************************************************************************)
(* The predicate-scan core of the table scan: the sort-order aware range   *)
(* narrowing of SortedSegmentSearch, the scan loops of BaseTableScanImpl   *)
(* and the segment iteration entry points.                                 *)
(*                                                                         *)
(* Iterators are modelled as 1-based indices into the iterated segment;    *)
(* the end iterator of a segment s is Len(s) + 1.  A segment position is   *)
(* the record [value, is_null, chunk_offset].                              *)
(***************************************************************************)
EXTENDS Integers, Sequences, FiniteSets, TLC

\* ------------------------------------------------------------------ bounds
\* Longest segment (and pair of ranges) of which every content is enumerated.
MaxLen == 2
\* Longest sorted segment (every sorted content, for every OrderByMode).
MaxSortedLen == 4
\* Column values are 0..MaxValue.
MaxValue == 2
\* Long segments span up to MaxBlocks blocks of the vectorized scan (+-1).
MaxBlocks == 2
\* Long segments repeat a pattern of at most MaxPeriod positions.
MaxPeriod == 2
\* scan_sorted_segment is called at most MaxScanCalls times on one object.
MaxScanCalls == 2

\* ------------------------------------------------------- program constants
SIMD_SIZE == 64
SIZEOF_VALUE_ID == 4
BUFFER_SIZE == SIMD_SIZE \div SIZEOF_VALUE_ID

\* --------------------------------------------------------------- the data
\* The content of a null row, outside the column values.
NULL == -1
Values == 0 .. MaxValue
\* The content of one row: a value or NULL.
Symbols == Values \cup {NULL}
\* Search values reach one past the largest column value, so that a search
\* value can lie below, inside and above the values of a segment.
SearchValues == 0 .. (MaxValue + 1)

OrderByModes == {"Ascending", "AscendingNullsLast", "Descending", "DescendingNullsLast"}
SupportedConditions ==
  {"Equals", "NotEquals", "LessThan", "LessThanEquals", "GreaterThan", "GreaterThanEquals"}
\* Members of PredicateCondition that SortedSegmentSearch does not handle.
OtherConditions == {"Between", "IsNull"}
PredicateConditions == SupportedConditions \cup OtherConditions

\* A null row stores the default value T{} in its value slot.
SegmentPosition(symbol, offset) ==
  [value |-> IF symbol = NULL THEN 0 ELSE symbol,
   is_null |-> (symbol = NULL),
   chunk_offset |-> offset]

\* The forward iteration over a whole segment with the given rows.
SegmentOf(rows) == [i \in 1 .. Len(rows) |-> SegmentPosition(rows[i], i - 1)]

RowsOfLen(n) == [1 .. n -> Symbols]
RowsUpTo(n) == UNION {RowsOfLen(k) : k \in 0 .. n}

RowID(chunk_id, chunk_offset) == [chunk_id |-> chunk_id, chunk_offset |-> chunk_offset]

\* ------------------------------------------------------------ sortedness
NullsContiguousFirst(rows) ==
  \A i \in 1 .. Len(rows) - 1 : rows[i] # NULL => rows[i + 1] # NULL
NullsContiguousLast(rows) ==
  \A i \in 1 .. Len(rows) - 1 : rows[i] = NULL => rows[i + 1] = NULL
NonNullAscending(rows) ==
  \A i, j \in 1 .. Len(rows) :
    (i < j /\ rows[i] # NULL /\ rows[j] # NULL) => rows[i] <= rows[j]
NonNullDescending(rows) ==
  \A i, j \in 1 .. Len(rows) :
    (i < j /\ rows[i] # NULL /\ rows[j] # NULL) => rows[i] >= rows[j]

IsAscendingMode(order_by) == order_by = "Ascending" \/ order_by = "AscendingNullsLast"
IsNullsFirstMode(order_by) == order_by = "Ascending" \/ order_by = "Descending"

\* rows are sorted according to order_by: the precondition of SortedSegmentSearch.
IsSortedBy(rows, order_by) ==
  /\ IF IsNullsFirstMode(order_by) THEN NullsContiguousFirst(rows)
                                   ELSE NullsContiguousLast(rows)
  /\ IF IsAscendingMode(order_by) THEN NonNullAscending(rows)
                                  ELSE NonNullDescending(rows)

\* The OrderByModes according to which rows are sorted.
SortOrdersOf(rows) == {order_by \in OrderByModes : IsSortedBy(rows, order_by)}

RowsOf(segment) ==
  [i \in 1 .. Len(segment) |-> IF segment[i].is_null THEN NULL ELSE segment[i].value]

\* ------------------------------------------------------ the input segments
ShortRows == RowsUpTo(MaxLen)
SortedRows == {rows \in RowsUpTo(MaxSortedLen) : SortOrdersOf(rows) # {}}
LongLens == {k * BUFFER_SIZE + d : k \in 1 .. MaxBlocks, d \in {-1, 0, 1}}
Periodic(pattern, n) == [i \in 1 .. n |-> pattern[((i - 1) % Len(pattern)) + 1]]
\* The rows of a pattern: a null row, a row of the smallest and one of the largest value.
PatternSymbols == {NULL, 0, MaxValue}
LongRows ==
  {Periodic(pattern, n) : pattern \in UNION {[1 .. k -> PatternSymbols] : k \in 1 .. MaxPeriod}, n \in LongLens}
AllRows == ShortRows \cup SortedRows \cup LongRows

\* ------------------------------------------------------------ comparisons
\* The comparison functors of with_comparator, one per supported condition.
Compare(condition, a, b) ==
  CASE condition = "Equals" -> a = b
    [] condition = "NotEquals" -> a # b
    [] condition = "LessThan" -> a < b
    [] condition = "LessThanEquals" -> a <= b
    [] condition = "GreaterThan" -> a > b
    [] condition = "GreaterThanEquals" -> a >= b
    [] OTHER -> FALSE

\* ------------------------------------------------------- std binary search
RECURSIVE lower_bound_loop(_, _, _)
\* std::lower_bound; flags[i] is comp(*i, value).
lower_bound_loop(flags, first, len) ==
  IF len <= 0 THEN first
  ELSE LET half == len \div 2
           middle == first + half
       IN  IF flags[middle] THEN lower_bound_loop(flags, middle + 1, len - half - 1)
                            ELSE lower_bound_loop(flags, first, half)

lower_bound(flags, first, last) == lower_bound_loop(flags, first, last - first)

RECURSIVE upper_bound_loop(_, _, _)
\* std::upper_bound; flags[i] is comp(value, *i).
upper_bound_loop(flags, first, len) ==
  IF len <= 0 THEN first
  ELSE LET half == len \div 2
           middle == first + half
       IN  IF flags[middle] THEN upper_bound_loop(flags, first, half)
                            ELSE upper_bound_loop(flags, middle + 1, len - half - 1)

upper_bound(flags, first, last) == upper_bound_loop(flags, first, last - first)

\* The indices of the iterator range [first, last), in iteration order.
IteratorRange(first, last) ==
  IF last > first THEN [i \in 1 .. (last - first) |-> first + i - 1] ELSE << >>

\* ------------------------------------------------------ SortedSegmentSearch
\* Mutant: the comparator of the ascending order is used for both directions.
Mutant_get_first_bound(segment, begin, end, search_value, is_ascending) ==
  lower_bound([i \in 1 .. Len(segment) |-> segment[i].value < search_value], begin, end)

\* Mutant: the first bound is searched with upper_bound.
Mutant_get_first_bound_Upper(segment, begin, end, search_value, is_ascending) ==
  IF is_ascending
    THEN upper_bound([i \in 1 .. Len(segment) |-> segment[i].value > search_value], begin, end)
    ELSE upper_bound([i \in 1 .. Len(segment) |-> segment[i].value < search_value], begin, end)

\* The first position of [begin, end) that is not before search_value in the
\* sort order.
_get_first_bound(segment, begin, end, search_value, is_ascending) ==
  IF is_ascending
    THEN lower_bound([i \in 1 .. Len(segment) |-> segment[i].value < search_value], begin, end)
    ELSE lower_bound([i \in 1 .. Len(segment) |-> segment[i].value > search_value], begin, end)

\* Mutant: the last bound is searched with lower_bound.
Mutant_get_last_bound_Lower(segment, begin, end, search_value, is_ascending) ==
  IF is_ascending
    THEN lower_bound([i \in 1 .. Len(segment) |-> segment[i].value < search_value], begin, end)
    ELSE lower_bound([i \in 1 .. Len(segment) |-> segment[i].value > search_value], begin, end)

\* The first position of [begin, end) that is behind search_value in the sort
\* order.
_get_last_bound(segment, begin, end, search_value, is_ascending) ==
  IF is_ascending
    THEN upper_bound([i \in 1 .. Len(segment) |-> segment[i].value > search_value], begin, end)
    ELSE upper_bound([i \in 1 .. Len(segment) |-> segment[i].value < search_value], begin, end)

\* Mutant: the switch of the descending order has no failing default.
Mutant_set_begin_and_end_NoDefault(segment, begin, end, condition, search_value, is_ascending) ==
  LET first(b, e) == _get_first_bound(segment, b, e, search_value, is_ascending)
      last(b, e) == _get_last_bound(segment, b, e, search_value, is_ascending)
      ok(b, e) == [begin |-> b, end |-> e, failed |-> FALSE]
      fail == [begin |-> begin, end |-> end, failed |-> TRUE]
  IN  IF condition = "Equals"
        THEN LET b == first(begin, end) IN ok(b, last(b, end))
        ELSE IF is_ascending
          THEN CASE condition = "GreaterThanEquals" -> ok(first(begin, end), end)
                 [] condition = "GreaterThan" -> ok(last(begin, end), end)
                 [] condition = "LessThanEquals" -> ok(begin, last(begin, end))
                 [] condition = "LessThan" -> ok(begin, first(begin, end))
                 [] OTHER -> fail
          ELSE CASE condition = "LessThanEquals" -> ok(first(begin, end), end)
                 [] condition = "LessThan" -> ok(last(begin, end), end)
                 [] condition = "GreaterThanEquals" -> ok(begin, last(begin, end))
                 [] condition = "GreaterThan" -> ok(begin, first(begin, end))
                 [] OTHER -> ok(begin, end)

\* Mutant: the descending order uses the table of the ascending order.
Mutant_set_begin_and_end_OneTable(segment, begin, end, condition, search_value, is_ascending) ==
  LET first(b, e) == _get_first_bound(segment, b, e, search_value, is_ascending)
      last(b, e) == _get_last_bound(segment, b, e, search_value, is_ascending)
      ok(b, e) == [begin |-> b, end |-> e, failed |-> FALSE]
      fail == [begin |-> begin, end |-> end, failed |-> TRUE]
  IN  IF condition = "Equals"
        THEN LET b == first(begin, end) IN ok(b, last(b, end))
        ELSE CASE condition = "GreaterThanEquals" -> ok(first(begin, end), end)
               [] condition = "GreaterThan" -> ok(last(begin, end), end)
               [] condition = "LessThanEquals" -> ok(begin, last(begin, end))
               [] condition = "LessThan" -> ok(begin, first(begin, end))
               [] OTHER -> fail

\* Mutant: GreaterThan on an ascending range starts one behind the last bound.
Mutant_set_begin_and_end_Shrinking(segment, begin, end, condition, search_value, is_ascending) ==
  LET first(b, e) == _get_first_bound(segment, b, e, search_value, is_ascending)
      last(b, e) == _get_last_bound(segment, b, e, search_value, is_ascending)
      ok(b, e) == [begin |-> b, end |-> e, failed |-> FALSE]
      fail == [begin |-> begin, end |-> end, failed |-> TRUE]
      next(b, e) == IF b < e THEN b + 1 ELSE b
  IN  IF condition = "Equals"
        THEN LET b == first(begin, end) IN ok(b, last(b, end))
        ELSE IF is_ascending
          THEN CASE condition = "GreaterThanEquals" -> ok(first(begin, end), end)
                 [] condition = "GreaterThan" -> ok(next(last(begin, end), end), end)
                 [] condition = "LessThanEquals" -> ok(begin, last(begin, end))
                 [] condition = "LessThan" -> ok(begin, first(begin, end))
                 [] OTHER -> fail
          ELSE CASE condition = "LessThanEquals" -> ok(first(begin, end), end)
                 [] condition = "LessThan" -> ok(last(begin, end), end)
                 [] condition = "GreaterThanEquals" -> ok(begin, last(begin, end))
                 [] condition = "GreaterThan" -> ok(begin, first(begin, end))
                 [] OTHER -> fail

\* The new [_begin, _end), or the failure of an unsupported predicate condition.
_set_begin_and_end(segment, begin, end, condition, search_value, is_ascending) ==
  LET first(b, e) == _get_first_bound(segment, b, e, search_value, is_ascending)
      last(b, e) == _get_last_bound(segment, b, e, search_value, is_ascending)
      ok(b, e) == [begin |-> b, end |-> e, failed |-> FALSE]
      fail == [begin |-> begin, end |-> end, failed |-> TRUE]
  IN  IF condition = "Equals"
        THEN LET b == first(begin, end) IN ok(b, last(b, end))
        ELSE IF is_ascending
          THEN CASE condition = "GreaterThanEquals" -> ok(first(begin, end), end)
                 [] condition = "GreaterThan" -> ok(last(begin, end), end)
                 [] condition = "LessThanEquals" -> ok(begin, last(begin, end))
                 [] condition = "LessThan" -> ok(begin, first(begin, end))
                 [] OTHER -> fail
          ELSE CASE condition = "LessThanEquals" -> ok(first(begin, end), end)
                 [] condition = "LessThan" -> ok(last(begin, end), end)
                 [] condition = "GreaterThanEquals" -> ok(begin, last(begin, end))
                 [] condition = "GreaterThan" -> ok(begin, first(begin, end))
                 [] OTHER -> fail

\* Mutant: the two sub-ranges are joined in the wrong order.
Mutant_handle_not_equals_Swapped(segment, begin, end, search_value, is_ascending) ==
  LET first_occurrence == _get_first_bound(segment, begin, end, search_value, is_ascending)
      last_occurrence == _get_last_bound(segment, begin, end, search_value, is_ascending)
  IN  IteratorRange(last_occurrence, end) \o IteratorRange(begin, first_occurrence)

\* Mutant: when the run of search_value ends at the end of the range, the whole
\* range is handed to the functor.
Mutant_handle_not_equals_EarlyOut(segment, begin, end, search_value, is_ascending) ==
  LET first_occurrence == _get_first_bound(segment, begin, end, search_value, is_ascending)
      last_occurrence == _get_last_bound(segment, begin, end, search_value, is_ascending)
  IN  IF first_occurrence = end THEN IteratorRange(begin, end)
      ELSE IF last_occurrence = end THEN IteratorRange(begin, end)
      ELSE IF first_occurrence = begin THEN IteratorRange(last_occurrence, end)
      ELSE IteratorRange(begin, first_occurrence) \o IteratorRange(last_occurrence, end)

\* Mutant: when the run of search_value starts the range, the whole range is
\* handed to the functor.
Mutant_handle_not_equals_FirstAtBegin(segment, begin, end, search_value, is_ascending) ==
  LET first_occurrence == _get_first_bound(segment, begin, end, search_value, is_ascending)
      last_occurrence == _get_last_bound(segment, begin, end, search_value, is_ascending)
  IN  IF first_occurrence = end THEN IteratorRange(begin, end)
      ELSE IF last_occurrence = end THEN IteratorRange(begin, first_occurrence)
      ELSE IF first_occurrence = begin THEN IteratorRange(begin, end)
      ELSE IteratorRange(begin, first_occurrence) \o IteratorRange(last_occurrence, end)

\* The iteration the functor is called on for NotEquals: the positions of
\* [begin, end) in front of and behind the run of search_value.
_handle_not_equals(segment, begin, end, search_value, is_ascending) ==
  LET first_occurrence == _get_first_bound(segment, begin, end, search_value, is_ascending)
      last_occurrence == _get_last_bound(segment, begin, end, search_value, is_ascending)
  IN  IF first_occurrence = end THEN IteratorRange(begin, end)
      ELSE IF last_occurrence = end THEN IteratorRange(begin, first_occurrence)
      ELSE IF first_occurrence = begin THEN IteratorRange(last_occurrence, end)
      ELSE IteratorRange(begin, first_occurrence) \o IteratorRange(last_occurrence, end)

\* Mutant: the nulls are looked for at the front for every OrderByMode.
MutantExcludeNulls_AlwaysFirst(segment, begin, end, is_nulls_first) ==
  [begin |-> lower_bound([i \in 1 .. Len(segment) |-> segment[i].is_null], begin, end),
   end |-> end]

\* The range without its null positions, which are at its front or its back.
ExcludeNulls(segment, begin, end, is_nulls_first) ==
  IF is_nulls_first
    THEN [begin |-> lower_bound([i \in 1 .. Len(segment) |-> segment[i].is_null], begin, end),
          end |-> end]
    ELSE [begin |-> begin,
          end |-> lower_bound([i \in 1 .. Len(segment) |-> ~segment[i].is_null], begin, end)]

\* Mutant: for NotEquals the functor is called on each sub-range.
Mutant_scan_sorted_segment_TwoCalls(segment, begin, end, condition, search_value, is_ascending, is_nulls_first) ==
  LET nonnull == ExcludeNulls(segment, begin, end, is_nulls_first)
      first_occurrence == _get_first_bound(segment, nonnull.begin, nonnull.end, search_value, is_ascending)
      last_occurrence == _get_last_bound(segment, nonnull.begin, nonnull.end, search_value, is_ascending)
  IN  IF condition = "NotEquals"
        THEN [begin |-> nonnull.begin, end |-> nonnull.end, failed |-> FALSE,
              functor_args |-> << IteratorRange(nonnull.begin, first_occurrence), IteratorRange(last_occurrence, nonnull.end) >>]
        ELSE LET set == _set_begin_and_end(segment, nonnull.begin, nonnull.end, condition, search_value, is_ascending)
             IN  [begin |-> set.begin, end |-> set.end, failed |-> set.failed,
                  functor_args |-> IF set.failed THEN << >> ELSE << IteratorRange(set.begin, set.end) >>]

\* One call of scan_sorted_segment on an object with the given fields: the
\* fields _begin and _end after the call, whether the call failed, and the
\* iterations the functor was called on, in order.
scan_sorted_segment(segment, begin, end, condition, search_value, is_ascending, is_nulls_first) ==
  LET nonnull == ExcludeNulls(segment, begin, end, is_nulls_first)
  IN  IF condition = "NotEquals"
        THEN [begin |-> nonnull.begin, end |-> nonnull.end, failed |-> FALSE,
              functor_args |->
                << _handle_not_equals(segment, nonnull.begin, nonnull.end, search_value, is_ascending) >>]
        ELSE LET set == _set_begin_and_end(segment, nonnull.begin, nonnull.end, condition,
                                           search_value, is_ascending)
             IN  [begin |-> set.begin, end |-> set.end, failed |-> set.failed,
                  functor_args |->
                    IF set.failed THEN << >> ELSE << IteratorRange(set.begin, set.end) >>]

\* --------------------------------------------- BaseTableScanImpl scan loops
\* The loops append to matches_out.  Each loop is given by the entries that it
\* appends from an iterator position on: those of the iteration at that
\* position, followed by those of the iterations behind it.

\* A unary functor is a comparison with a constant: [condition, value].
ApplyUnary(func, value) == Compare(func.condition, value, func.value)

\* The entries one iteration of the loop of _unary_scan appends, on position left.
_unary_scan_step(func, left, chunk_id) ==
  IF left.is_null THEN << >>
  ELSE IF ApplyUnary(func, left.value) THEN << RowID(chunk_id, left.chunk_offset) >>
  ELSE << >>

RECURSIVE UnaryScanLoop(_, _, _, _)
\* range is the iteration [left_it, left_end): the indices into segment that
\* the iterator visits, in order.
UnaryScanLoop(func, segment, range, chunk_id) ==
  IF range = << >> THEN << >>
  ELSE _unary_scan_step(func, segment[Head(range)], chunk_id)
         \o UnaryScanLoop(func, segment, Tail(range), chunk_id)

\* Mutant: the call fills matches_out anew.
Mutant_unary_scan_Overwrite(func, segment, range, chunk_id, matches_out) ==
  UnaryScanLoop(func, segment, range, chunk_id)

_unary_scan(func, segment, range, chunk_id, matches_out) ==
  matches_out \o UnaryScanLoop(func, segment, range, chunk_id)

BoolToInt(b) == IF b THEN 1 ELSE 0

\* Mutant: the block path does not check is_null.
MutantBufferEntry_NoNullCheck(LeftIsNullable, condition, left, right_value) ==
  BoolToInt(Compare(condition, left.value, right_value)) * (left.chunk_offset + 1)

\* Mutant: the buffer holds chunk_offset instead of chunk_offset + 1.
MutantBufferEntry_NoPlusOne(LeftIsNullable, condition, left, right_value) ==
  LET matches == (~LeftIsNullable \/ ~left.is_null) /\ Compare(condition, left.value, right_value)
  IN  BoolToInt(matches) * left.chunk_offset

\* The entry the vectorized loop writes to buffer[i] for position left.  The
\* offsets of a chunk stay below the largest ChunkOffset (the invalid offset), so
\* that chunk_offset + 1 does not wrap around.
BufferEntry(LeftIsNullable, condition, left, right_value) ==
  LET matches == (~LeftIsNullable \/ ~left.is_null) /\ Compare(condition, left.value, right_value)
  IN  BoolToInt(matches) * (left.chunk_offset + 1)

\* The buffer of the block that starts at left_it.
FillBuffer(LeftIsNullable, condition, segment, left_it, right_value) ==
  [i \in 0 .. BUFFER_SIZE - 1 |->
     BufferEntry(LeftIsNullable, condition, segment[left_it + i], right_value)]

RECURSIVE MatchPositions(_, _)
\* The bits static_cast<bool>(buffer[i]) << i of i .. BUFFER_SIZE - 1, or-ed.
MatchPositions(buffer, i) ==
  IF i >= BUFFER_SIZE THEN 0
  ELSE BoolToInt(buffer[i] # 0) * (2 ^ i) + MatchPositions(buffer, i + 1)

RECURSIVE CollectMatches(_, _, _, _)
\* The entries the loop `while (match_positions)` appends.
CollectMatches(match_positions, buffer_index, buffer, chunk_id) ==
  IF match_positions = 0 THEN << >>
  ELSE (IF match_positions % 2 = 1 THEN << RowID(chunk_id, buffer[buffer_index] - 1) >>
                                   ELSE << >>)
         \o CollectMatches(match_positions \div 2, buffer_index + 1, buffer, chunk_id)

\* The entries one block appends.
BlockMatches(LeftIsNullable, condition, segment, left_it, right_value, chunk_id) ==
  LET buffer == FillBuffer(LeftIsNullable, condition, segment, left_it, right_value)
  IN  CollectMatches(MatchPositions(buffer, 0), 0, buffer, chunk_id)

\* Whether the loop over blocks runs another block.
BlockLoopCondition(left_it, left_end) == left_end - left_it > BUFFER_SIZE

RECURSIVE BlockLoop(_, _, _, _, _, _, _)
\* The loop over blocks from left_it on: the entries it appends, the number of
\* blocks it runs and left_it behind it.
BlockLoop(LeftIsNullable, condition, segment, left_it, left_end, right_value, chunk_id) ==
  IF BlockLoopCondition(left_it, left_end)
    THEN LET rest == BlockLoop(LeftIsNullable, condition, segment, left_it + BUFFER_SIZE, left_end, right_value, chunk_id)
         IN  [appended |-> BlockMatches(LeftIsNullable, condition, segment, left_it, right_value, chunk_id) \o rest.appended,
              blocks |-> rest.blocks + 1,
              left_it |-> rest.left_it]
    ELSE [appended |-> << >>, blocks |-> 0, left_it |-> left_it]

\* The entries one iteration of the remainder loop of _unary_scan_with_value
\* appends.
RemainderStep(LeftIsNullable, condition, left, right_value, chunk_id) ==
  IF (~LeftIsNullable \/ ~left.is_null) /\ Compare(condition, left.value, right_value)
    THEN << RowID(chunk_id, left.chunk_offset) >>
    ELSE << >>

RECURSIVE RemainderLoop(_, _, _, _, _, _, _)
RemainderLoop(LeftIsNullable, condition, segment, left_it, left_end, right_value, chunk_id) ==
  IF left_it = left_end THEN << >>
  ELSE RemainderStep(LeftIsNullable, condition, segment[left_it], right_value, chunk_id)
         \o RemainderLoop(LeftIsNullable, condition, segment, left_it + 1, left_end, right_value, chunk_id)

\* vectorize is `!IS_DEBUG && LeftIterator::IsVectorizable`.  The result is
\* matches_out after the call, with the number of blocks the vectorized loop ran
\* and the length of the remainder it left to the scalar loop.
_unary_scan_with_value(vectorize, LeftIsNullable, condition, segment, left_it, left_end, right_value, chunk_id, matches_out) ==
  LET blocked == IF vectorize
                   THEN BlockLoop(LeftIsNullable, condition, segment, left_it, left_end, right_value, chunk_id)
                   ELSE [appended |-> << >>, blocks |-> 0, left_it |-> left_it]
  IN  [matches_out |-> matches_out \o blocked.appended
                         \o RemainderLoop(LeftIsNullable, condition, segment, blocked.left_it, left_end, right_value, chunk_id),
       blocks |-> blocked.blocks,
       remainder |-> left_end - blocked.left_it]

\* Mutant: only the left position is checked for null.
Mutant_binary_scan_step_LeftNullOnly(condition, left, right, chunk_id) ==
  IF left.is_null THEN << >>
  ELSE IF Compare(condition, left.value, right.value) THEN << RowID(chunk_id, left.chunk_offset) >>
  ELSE << >>

\* The entries one iteration of the loop of _binary_scan appends, on the
\* positions left and right.
_binary_scan_step(condition, left, right, chunk_id) ==
  IF left.is_null \/ right.is_null THEN << >>
  ELSE IF Compare(condition, left.value, right.value) THEN << RowID(chunk_id, left.chunk_offset) >>
  ELSE << >>

\* The iterator increment `++left_it, ++right_it` of _binary_scan.
BinaryAdvance(its) == [left_it |-> its.left_it + 1, right_it |-> its.right_it + 1]

RECURSIVE BinaryScanLoop(_, _, _, _, _, _)
\* The entries the loop appends from its on, and the pairs of positions it visits.
BinaryScanLoop(condition, left_segment, its, left_end, right_segment, chunk_id) ==
  IF its.left_it = left_end THEN [appended |-> << >>, visited |-> << >>]
  ELSE LET rest == BinaryScanLoop(condition, left_segment, BinaryAdvance(its), left_end, right_segment, chunk_id)
       IN  [appended |-> _binary_scan_step(condition, left_segment[its.left_it], right_segment[its.right_it], chunk_id) \o rest.appended,
            visited |-> << << its.left_it, its.right_it >> >> \o rest.visited]

\* matches_out after the call, and the pairs of positions the loop visited.
_binary_scan(condition, left_segment, left_it, left_end, right_segment, right_it, chunk_id, matches_out) ==
  LET loop == BinaryScanLoop(condition, left_segment, [left_it |-> left_it, right_it |-> right_it], left_end, right_segment, chunk_id)
  IN  [matches_out |-> matches_out \o loop.appended, visited |-> loop.visited]

\* The functor the sorted scan passes to scan_sorted_segment: the emission pass,
\* which appends the RowID of every position of the iteration it is called on.
RECURSIVE EmitRange(_, _, _, _)
EmitRange(segment, range, chunk_id, matches_out) ==
  IF range = << >> THEN matches_out
  ELSE EmitRange(segment, Tail(range), chunk_id,
                 Append(matches_out, RowID(chunk_id, segment[Head(range)].chunk_offset)))

RECURSIVE EmitRanges(_, _, _, _)
EmitRanges(segment, ranges, chunk_id, matches_out) ==
  IF ranges = << >> THEN matches_out
  ELSE EmitRanges(segment, Tail(ranges), chunk_id,
                  EmitRange(segment, Head(ranges), chunk_id, matches_out))

\* ------------------------------------------------------------------- state
VARIABLES
  left,                  \* the scanned segment: the iteration [begin, end) over it
  chunk_id,              \* the ChunkID of the scanned chunk
  matches_out,           \* the PosList the scan appends to
  before,                \* matches_out when the last call began
  op,                    \* the last operation: "none" before any
  \* the arguments of the last scan loop call
  right,                 \* the right range of _binary_scan
  func,                  \* the functor: a comparison [condition, value]
  LeftIsNullable,        \* template parameter of _unary_scan_with_value
  IS_DEBUG,              \* the build's IS_DEBUG
  IsVectorizable,        \* LeftIterator::IsVectorizable
  visited,               \* the pairs of positions _binary_scan visited
  blocks,                \* the blocks the vectorized loop ran
  remainder,             \* the length of the range left to the scalar loop
  \* the SortedSegmentSearch object
  order_by,
  _begin,
  _end,
  _predicate_condition,
  _search_value,
  _is_ascending,
  _is_nulls_first,
  functor_args,          \* the iterations the functor was called on by the last call
  failed,                \* the last call ended in Fail()
  scan_calls,            \* calls of scan_sorted_segment on the object
  \* concurrent scan calls
  calls,                 \* per call: its arguments, its iterators, its PosList
  buffers,               \* per call: the buffer of the block it is in
  \* a call of segment_with_iterators or segment_for_each
  base_segment,
  position_filter,
  T,                     \* template parameter: a DataType or ResolveDataTypeTag
  type_erasure,          \* template parameter: SegmentIterationTypeErasure
  functor_calls,         \* what the caller's functor was invoked with, in order
  fail_message,          \* the message of Fail(), "" when the call returned
  \* a call of a ternary logic functor
  a_value,
  a_null,
  b_value,
  b_null,
  result_value,
  result_null,
  \* an ExpressionResult and the view as_view handed to its functor
  values,
  nulls,
  assert_failed,         \* the constructor's DebugAssert fired
  view,
  view_read              \* the last query of the view: its index and what it reported

inputVars == << left, chunk_id >>
loopVars == << right, func, LeftIsNullable, IS_DEBUG, IsVectorizable, visited, blocks, remainder >>
searchVars == << order_by, _begin, _end, _predicate_condition, _search_value, _is_ascending, _is_nulls_first, functor_args, failed, scan_calls >>
concVars == << calls, buffers >>
iterVars == << base_segment, position_filter, T, type_erasure, functor_calls, fail_message >>
logicVars == << a_value, a_null, b_value, b_null, result_value, result_null >>
resultVars == << values, nulls, assert_failed, view, view_read >>
vars == << inputVars, matches_out, before, op, loopVars, searchVars, concVars, iterVars, logicVars, resultVars >>

NoFunc == [condition |-> "none", value |-> 0]

\* No scan loop was called.
LoopIdle ==
  /\ right = << >>
  /\ func = NoFunc
  /\ LeftIsNullable = FALSE
  /\ IS_DEBUG = FALSE
  /\ IsVectorizable = FALSE
  /\ visited = << >>
  /\ blocks = 0
  /\ remainder = 0

\* No SortedSegmentSearch was constructed.
SearchIdle ==
  /\ order_by = "none"
  /\ _begin = 0
  /\ _end = 0
  /\ _predicate_condition = "none"
  /\ _search_value = 0
  /\ _is_ascending = FALSE
  /\ _is_nulls_first = FALSE
  /\ functor_args = << >>
  /\ failed = FALSE
  /\ scan_calls = 0

\* No concurrent calls were started.
ConcIdle ==
  /\ calls = << >>
  /\ buffers = << >>

NoSegment == [data_type |-> "none", point_accessible |-> FALSE, rows |-> << >>]
NullFilter == [is_nullptr |-> TRUE, pos_list |-> << >>]

\* No segment iteration was called.
IterIdle ==
  /\ base_segment = NoSegment
  /\ position_filter = NullFilter
  /\ T = "none"
  /\ type_erasure = "none"
  /\ functor_calls = << >>
  /\ fail_message = ""

\* An argument of the type NullValue carries no value.
NullValue == [type |-> "NullValue", value |-> 0]

\* No logic functor was called.
\* No view handed out, no query of a view.
NoView == [kind |-> "none", values |-> << >>, nulls |-> << >>]
NoRead == [idx |-> 0, value |-> 0, is_null |-> FALSE, past_the_end |-> FALSE]

\* A default-constructed ExpressionResult, no view.
ResultIdle ==
  /\ values = << >>
  /\ nulls = << >>
  /\ assert_failed = FALSE
  /\ view = NoView
  /\ view_read = NoRead

LogicIdle ==
  /\ a_value = NullValue
  /\ a_null = FALSE
  /\ b_value = NullValue
  /\ b_null = FALSE
  /\ result_value = 0
  /\ result_null = FALSE

\* The chunks to scan with the PosList to fill: the scan of chunk 0 fills an empty
\* PosList, the scan of chunk 1 appends to a PosList that holds an entry.
ScanTargets == {[chunk_id |-> 0, matches_out |-> << >>],
                [chunk_id |-> 1, matches_out |-> << RowID(1, 1) >>]}

\* A chunk to scan and the PosList to fill.  Every short segment is scanned
\* into every scan target.
Init ==
  /\ \E rows \in AllRows :
       /\ left = SegmentOf(rows)
       /\ IF rows \in ShortRows
            THEN \E target \in ScanTargets :
                   chunk_id = target.chunk_id /\ matches_out = target.matches_out
            ELSE chunk_id = 0 /\ matches_out = << >>
  /\ before = << >>
  /\ op = "none"
  /\ LoopIdle
  /\ SearchIdle
  /\ ConcIdle
  /\ IterIdle
  /\ LogicIdle
  /\ ResultIdle

left_begin == 1
left_end == Len(left) + 1

\* The constructor of SortedSegmentSearch, on the whole segment, which is sorted
\* according to the given OrderByMode (the precondition of the class).
Construct ==
  /\ op = "none"
  /\ \E ob \in SortOrdersOf(RowsOf(left)), condition \in PredicateConditions, search_value \in SearchValues :
       /\ order_by' = ob
       /\ _predicate_condition' = condition
       /\ _search_value' = search_value
       /\ _is_ascending' = (ob = "Ascending" \/ ob = "AscendingNullsLast")
       /\ _is_nulls_first' = (ob = "Ascending" \/ ob = "Descending")
  /\ op' = "SortedSegmentSearch"
  /\ _begin' = left_begin
  /\ _end' = left_end
  /\ UNCHANGED << inputVars, matches_out, before, loopVars, functor_args, failed, scan_calls, concVars, iterVars, logicVars, resultVars >>

\* A call of scan_sorted_segment with the emitting functor.
ScanSortedSegment ==
  /\ op \in {"SortedSegmentSearch", "scan_sorted_segment"}
  /\ scan_calls < MaxScanCalls
  /\ LET result == scan_sorted_segment(left, _begin, _end, _predicate_condition, _search_value, _is_ascending, _is_nulls_first)
     IN  /\ _begin' = result.begin
         /\ _end' = result.end
         /\ failed' = result.failed
         /\ functor_args' = result.functor_args
         /\ matches_out' = EmitRanges(left, result.functor_args, chunk_id, matches_out)
  /\ before' = matches_out
  /\ op' = "scan_sorted_segment"
  /\ scan_calls' = scan_calls + 1
  /\ UNCHANGED << inputVars, loopVars, order_by, _predicate_condition, _search_value, _is_ascending, _is_nulls_first, concVars, iterVars, logicVars, resultVars >>

\* The functors of the scans: the comparisons with a constant.
Funcs == [condition : SupportedConditions, value : SearchValues]

\* A call of _unary_scan over the whole segment.
UnaryScan ==
  /\ op = "none"
  /\ \E f \in Funcs :
       /\ func' = f
       /\ matches_out' = _unary_scan(f, left, IteratorRange(left_begin, left_end), chunk_id, matches_out)
  /\ op' = "_unary_scan"
  /\ before' = matches_out
  /\ UNCHANGED << inputVars, right, LeftIsNullable, IS_DEBUG, IsVectorizable, visited, blocks, remainder, searchVars, concVars, iterVars, logicVars, resultVars >>

\* A call of _unary_scan_with_value<nullable> over the whole segment, in a
\* build with IS_DEBUG = debug and an iterator with IsVectorizable = vectorizable.
UnaryScanWithValue ==
  /\ op = "none"
  /\ RowsOf(left) \in ShortRows \cup LongRows
  /\ \E nullable \in BOOLEAN, debug \in BOOLEAN, vectorizable \in BOOLEAN, f \in Funcs :
       /\ func' = f
       /\ LeftIsNullable' = nullable
       /\ IS_DEBUG' = debug
       /\ IsVectorizable' = vectorizable
       /\ LET result == _unary_scan_with_value(~debug /\ vectorizable, nullable, f.condition, left, left_begin, left_end, f.value, chunk_id, matches_out)
          IN  /\ matches_out' = result.matches_out
              /\ blocks' = result.blocks
              /\ remainder' = result.remainder
  /\ op' = "_unary_scan_with_value"
  /\ before' = matches_out
  /\ UNCHANGED << inputVars, right, visited, searchVars, concVars, iterVars, logicVars, resultVars >>

\* A call of _binary_scan over the whole segment and a right range of its length.
BinaryScan ==
  /\ op = "none"
  /\ Len(left) <= MaxLen
  /\ \E condition \in SupportedConditions, right_rows \in [1 .. Len(left) -> PatternSymbols] :
       /\ right' = SegmentOf(right_rows)
       /\ func' = [condition |-> condition, value |-> 0]
       /\ LET result == _binary_scan(condition, left, left_begin, left_end, SegmentOf(right_rows), 1, chunk_id, matches_out)
          IN  /\ matches_out' = result.matches_out
              /\ visited' = result.visited
  /\ op' = "_binary_scan"
  /\ before' = matches_out
  /\ UNCHANGED << inputVars, LeftIsNullable, IS_DEBUG, IsVectorizable, blocks, remainder, searchVars, concVars, iterVars, logicVars, resultVars >>

Next ==
  \/ Construct
  \/ ScanSortedSegment
  \/ UnaryScan
  \/ UnaryScanWithValue
  \/ BinaryScan

Spec == Init /\ [][Next]_vars

\* ----------------------------------------------------- concurrent scan calls
\* The scan calls of one table scan run as tasks, one per chunk.  A step of a
\* task is one iteration of the loop it is in; in the vectorized loop, filling
\* the buffer of a block and collecting its matches are a step each.

\* The number of concurrent scan calls.
MaxTasks == 2
Tasks == 1 .. MaxTasks

ConcShortRows == {<< 0, NULL, MaxValue >>, << MaxValue, 0 >>}
ConcLongRows == {Periodic(<< 0, NULL, MaxValue >>, BUFFER_SIZE + 2), Periodic(<< MaxValue, 0 >>, BUFFER_SIZE + 2)}
ConcFuncs == {[condition |-> "Equals", value |-> 0], [condition |-> "GreaterThan", value |-> 0]}
Reverse(rows) == [i \in 1 .. Len(rows) |-> rows[Len(rows) + 1 - i]]

\* The arguments of the concurrent calls: which scan loop, the functor, the
\* chunk's segment(s).
ConcArguments ==
  [kind : {"_unary_scan"}, func : ConcFuncs, rows : ConcShortRows]
    \cup [kind : {"_binary_scan"}, func : {[condition |-> "LessThan", value |-> 0]}, rows : ConcShortRows]
    \cup [kind : {"_unary_scan_with_value"}, func : {[condition |-> "Equals", value |-> 0]}, rows : ConcLongRows \cup {<< 0, NULL, MaxValue >>}]

\* The call of task with the given arguments, before its first step.  Each call
\* scans its own chunk and is given its own, empty PosList.
StartCall(task, arguments) ==
  [kind |-> arguments.kind,
   func |-> arguments.func,
   left |-> SegmentOf(arguments.rows),
   right |-> IF arguments.kind = "_binary_scan" THEN SegmentOf(Reverse(arguments.rows)) ELSE << >>,
   chunk_id |-> task,
   left_it |-> 1,
   right_it |-> 1,
   left_end |-> Len(arguments.rows) + 1,
   matches_out |-> << >>,
   pc |-> "loop"]

ZeroBuffer == [i \in 0 .. BUFFER_SIZE - 1 |-> 0]

InitConc ==
  /\ calls \in {[task \in Tasks |-> StartCall(task, arguments[task])] : arguments \in [Tasks -> ConcArguments]}
  /\ buffers = [task \in Tasks |-> ZeroBuffer]
  /\ left = << >>
  /\ chunk_id = 0
  /\ matches_out = << >>
  /\ before = << >>
  /\ op = "none"
  /\ LoopIdle
  /\ SearchIdle
  /\ IterIdle
  /\ LogicIdle
  /\ ResultIdle

notConcVars == << inputVars, matches_out, before, op, loopVars, searchVars, iterVars, logicVars, resultVars >>

\* Mutant: the buffer is one object shared by all calls.
MutantBufferOf_Shared(task) == 1

\* The buffer a call fills and reads: `buffer` is a local variable of the block
\* loop, so every call has its own.
BufferOf(task) == task

\* One iteration of the loop of _unary_scan.
ConcUnaryScanStep ==
  \E task \in Tasks :
    LET call == calls[task]
    IN  /\ call.kind = "_unary_scan"
        /\ call.left_it # call.left_end
        /\ calls' = [calls EXCEPT ![task] =
                       [call EXCEPT !.matches_out = @ \o _unary_scan_step(call.func, call.left[call.left_it], call.chunk_id),
                                    !.left_it = @ + 1]]
        /\ UNCHANGED << buffers, notConcVars >>

\* The loop that fills the buffer of a block of _unary_scan_with_value<true>.
ConcFillBuffer ==
  \E task \in Tasks :
    LET call == calls[task]
    IN  /\ call.kind = "_unary_scan_with_value"
        /\ call.pc = "loop"
        /\ BlockLoopCondition(call.left_it, call.left_end)
        /\ buffers' = [buffers EXCEPT ![BufferOf(task)] = FillBuffer(TRUE, call.func.condition, call.left, call.left_it, call.func.value)]
        /\ calls' = [calls EXCEPT ![task] = [call EXCEPT !.left_it = @ + BUFFER_SIZE, !.pc = "collect"]]
        /\ UNCHANGED notConcVars

\* The loops that compute match_positions and append the matches of a block.
ConcCollectMatches ==
  \E task \in Tasks :
    LET call == calls[task]
        buffer == buffers[BufferOf(task)]
    IN  /\ call.kind = "_unary_scan_with_value"
        /\ call.pc = "collect"
        /\ calls' = [calls EXCEPT ![task] =
                       [call EXCEPT !.matches_out = @ \o CollectMatches(MatchPositions(buffer, 0), 0, buffer, call.chunk_id),
                                    !.pc = "loop"]]
        /\ UNCHANGED << buffers, notConcVars >>

\* One iteration of the remainder loop of _unary_scan_with_value<true>.
ConcRemainderStep ==
  \E task \in Tasks :
    LET call == calls[task]
    IN  /\ call.kind = "_unary_scan_with_value"
        /\ call.pc = "loop"
        /\ ~BlockLoopCondition(call.left_it, call.left_end)
        /\ call.left_it # call.left_end
        /\ calls' = [calls EXCEPT ![task] =
                       [call EXCEPT !.matches_out = @ \o RemainderStep(TRUE, call.func.condition, call.left[call.left_it], call.func.value, call.chunk_id),
                                    !.left_it = @ + 1]]
        /\ UNCHANGED << buffers, notConcVars >>

\* One iteration of the loop of _binary_scan.
ConcBinaryScanStep ==
  \E task \in Tasks :
    LET call == calls[task]
        its == BinaryAdvance([left_it |-> call.left_it, right_it |-> call.right_it])
    IN  /\ call.kind = "_binary_scan"
        /\ call.left_it # call.left_end
        /\ calls' = [calls EXCEPT ![task] =
                       [call EXCEPT !.matches_out = @ \o _binary_scan_step(call.func.condition, call.left[call.left_it], call.right[call.right_it], call.chunk_id),
                                    !.left_it = its.left_it,
                                    !.right_it = its.right_it]]
        /\ UNCHANGED << buffers, notConcVars >>

NextConc ==
  \/ ConcUnaryScanStep
  \/ ConcFillBuffer
  \/ ConcCollectMatches
  \/ ConcRemainderStep
  \/ ConcBinaryScanStep

SpecConc == InitConc /\ [][NextConc]_vars

\* ------------------------------------------------------- segment iteration
ResolveDataTypeTag == "ResolveDataTypeTag"
DataTypes == {"int", "long"}
SegmentIterationTypeErasure == {"OnlyInDebug", "Always"}

\* The longest position filter.
MaxFilterLen == 2

\* A BaseSegment: its data type, its rows, and whether the iterable that
\* create_iterable_from_segment gives for its encoding is point accessible.
BaseSegments == [data_type : DataTypes, point_accessible : BOOLEAN, rows : ShortRows]

\* The position filters for a segment: nullptr, or a PosList of chunk offsets
\* of the segment.
PositionFilters(segment) ==
  {NullFilter} \cup
    {[is_nullptr |-> FALSE, pos_list |-> pos_list] :
       pos_list \in UNION {[1 .. n -> 0 .. Len(segment.rows) - 1] : n \in 0 .. MaxFilterLen}}

\* The outcome of a call: the message of Fail() or "", and what the caller's
\* functor was invoked with, in order.
Returns(invocations) == [fail_message |-> "", functor_calls |-> invocations]
Fail(message) == [fail_message |-> message, functor_calls |-> << >>]

\* resolve_data_type calls its functor with the type of the data type tag.
resolve_data_type(data_type) == data_type

is_point_accessible_segment_iterable_v(segment) == segment.point_accessible

\* SegmentIterable::with_iterators(functor): the functor is invoked once, with
\* the iteration over all positions of the segment.
SegmentIterable_with_iterators(segment) == Returns(<< SegmentOf(segment.rows) >>)

\* PointAccessibleSegmentIterable::with_iterators(position_filter, functor): the
\* functor is invoked once, with the iteration over the positions at the chunk
\* offsets of the filter, in the order of the filter.
PointAccessible_with_iterators(segment, filter) ==
  Returns(<< [k \in 1 .. Len(filter.pos_list) |-> SegmentOf(segment.rows)[filter.pos_list[k] + 1]] >>)

\* AnySegmentIterable wraps the iterable of the segment: it forwards to it, and
\* point access into an iterable that does not support it fails.
AnySegmentIterable_with_iterators(segment) == SegmentIterable_with_iterators(segment)

AnySegmentIterable_with_iterators_filter(segment, filter) ==
  IF is_point_accessible_segment_iterable_v(segment)
    THEN PointAccessible_with_iterators(segment, filter)
    ELSE Fail("capability-not-supported")

\* `IS_DEBUG || type_erasure == SegmentIterationTypeErasure::Always`
UseTypeErasure(is_debug, erasure) == is_debug \/ erasure = "Always"

RECURSIVE segment_with_iterators(_, _, _, _)
segment_with_iterators(type, erasure, is_debug, segment) ==
  IF type = ResolveDataTypeTag
    THEN segment_with_iterators(resolve_data_type(segment.data_type), erasure, is_debug, segment)
    ELSE IF UseTypeErasure(is_debug, erasure)
      THEN AnySegmentIterable_with_iterators(segment)
      ELSE SegmentIterable_with_iterators(segment)

\* Mutant: the statically specialized branch does not look at the capability.
Mutant_segment_with_iterators_filter_NoFail(type, erasure, is_debug, segment, filter) ==
  IF filter.is_nullptr
    THEN segment_with_iterators(type, erasure, is_debug, segment)
    ELSE IF UseTypeErasure(is_debug, erasure)
      THEN AnySegmentIterable_with_iterators_filter(segment, filter)
      ELSE PointAccessible_with_iterators(segment, filter)

\* Mutant: the type-erased branch drops the position filter.
Mutant_segment_with_iterators_filter_Dropped(type, erasure, is_debug, segment, filter) ==
  IF filter.is_nullptr
    THEN segment_with_iterators(type, erasure, is_debug, segment)
    ELSE IF UseTypeErasure(is_debug, erasure)
      THEN AnySegmentIterable_with_iterators(segment)
      ELSE IF is_point_accessible_segment_iterable_v(segment)
        THEN PointAccessible_with_iterators(segment, filter)
        ELSE Fail("Cannot access non-PointAccessibleSegmentIterable with position_filter")

RECURSIVE segment_with_iterators_filter(_, _, _, _, _)
\* The overload with a position_filter.
segment_with_iterators_filter(type, erasure, is_debug, segment, filter) ==
  IF filter.is_nullptr
    THEN segment_with_iterators(type, erasure, is_debug, segment)
    ELSE IF type = ResolveDataTypeTag
      THEN segment_with_iterators_filter(resolve_data_type(segment.data_type), erasure, is_debug, segment, filter)
      ELSE IF UseTypeErasure(is_debug, erasure)
        THEN AnySegmentIterable_with_iterators_filter(segment, filter)
        ELSE IF is_point_accessible_segment_iterable_v(segment)
          THEN PointAccessible_with_iterators(segment, filter)
          ELSE Fail("Cannot access non-PointAccessibleSegmentIterable with position_filter")

RECURSIVE ForEachLoop(_)
\* The functor segment_for_each passes on: `while (it != end)` invokes the
\* caller's functor with every position of the iteration.
ForEachLoop(iteration) ==
  IF iteration = << >> THEN << >>
  ELSE << Head(iteration) >> \o ForEachLoop(Tail(iteration))

RECURSIVE ForEachInvocations(_)
ForEachInvocations(iterations) ==
  IF iterations = << >> THEN << >>
  ELSE ForEachLoop(Head(iterations)) \o ForEachInvocations(Tail(iterations))

\* The overload with a position_filter.
segment_for_each_filter(type, erasure, is_debug, segment, filter) ==
  LET result == segment_with_iterators_filter(type, erasure, is_debug, segment, filter)
  IN  [fail_message |-> result.fail_message, functor_calls |-> ForEachInvocations(result.functor_calls)]

segment_for_each(type, erasure, is_debug, segment) ==
  LET result == segment_with_iterators(type, erasure, is_debug, segment)
  IN  [fail_message |-> result.fail_message, functor_calls |-> ForEachInvocations(result.functor_calls)]

InitIter ==
  /\ base_segment \in BaseSegments
  /\ position_filter = NullFilter
  /\ T = "none"
  /\ type_erasure = "none"
  /\ functor_calls = << >>
  /\ fail_message = ""
  /\ left = << >>
  /\ chunk_id = 0
  /\ matches_out = << >>
  /\ before = << >>
  /\ op = "none"
  /\ LoopIdle
  /\ SearchIdle
  /\ ConcIdle
  /\ LogicIdle
  /\ ResultIdle

\* The data type the caller gives: that of the segment, or ResolveDataTypeTag.
CallerTypes == {ResolveDataTypeTag, base_segment.data_type}

notIterVars == << inputVars, matches_out, before, right, func, LeftIsNullable, IsVectorizable, visited, blocks, remainder, searchVars, concVars, logicVars, resultVars >>

SegmentWithIterators ==
  /\ op = "none"
  /\ \E type \in CallerTypes, erasure \in SegmentIterationTypeErasure, debug \in BOOLEAN :
       LET result == segment_with_iterators(type, erasure, debug, base_segment)
       IN  /\ T' = type
           /\ type_erasure' = erasure
           /\ IS_DEBUG' = debug
           /\ functor_calls' = result.functor_calls
           /\ fail_message' = result.fail_message
  /\ op' = "segment_with_iterators"
  /\ UNCHANGED << base_segment, position_filter, notIterVars >>

SegmentWithIteratorsFilter ==
  /\ op = "none"
  /\ \E type \in CallerTypes, erasure \in SegmentIterationTypeErasure, debug \in BOOLEAN, filter \in PositionFilters(base_segment) :
       LET result == segment_with_iterators_filter(type, erasure, debug, base_segment, filter)
       IN  /\ T' = type
           /\ type_erasure' = erasure
           /\ IS_DEBUG' = debug
           /\ position_filter' = filter
           /\ functor_calls' = result.functor_calls
           /\ fail_message' = result.fail_message
  /\ op' = "segment_with_iterators(position_filter)"
  /\ UNCHANGED << base_segment, notIterVars >>

SegmentForEach ==
  /\ op = "none"
  /\ \E type \in CallerTypes, erasure \in SegmentIterationTypeErasure, debug \in BOOLEAN :
       LET result == segment_for_each(type, erasure, debug, base_segment)
       IN  /\ T' = type
           /\ type_erasure' = erasure
           /\ IS_DEBUG' = debug
           /\ functor_calls' = result.functor_calls
           /\ fail_message' = result.fail_message
  /\ op' = "segment_for_each"
  /\ UNCHANGED << base_segment, position_filter, notIterVars >>

SegmentForEachFilter ==
  /\ op = "none"
  /\ \E type \in CallerTypes, erasure \in SegmentIterationTypeErasure, debug \in BOOLEAN, filter \in PositionFilters(base_segment) :
       LET result == segment_for_each_filter(type, erasure, debug, base_segment, filter)
       IN  /\ T' = type
           /\ type_erasure' = erasure
           /\ IS_DEBUG' = debug
           /\ position_filter' = filter
           /\ functor_calls' = result.functor_calls
           /\ fail_message' = result.fail_message
  /\ op' = "segment_for_each(position_filter)"
  /\ UNCHANGED << base_segment, notIterVars >>

NextIter ==
  \/ SegmentWithIterators
  \/ SegmentWithIteratorsFilter
  \/ SegmentForEach
  \/ SegmentForEachFilter

SpecIter == InitIter /\ [][NextIter]_vars

\* ---------------------------------------------------- ternary logic functors
\* The int32_t arguments of the logic functors are 0 .. MaxOperandValue.
MaxOperandValue == 2

\* The arguments a functor takes for one operand: a value of the type int32_t
\* or NullValue.
OperandValues ==
  {[type |-> "int32_t", value |-> v] : v \in 0 .. MaxOperandValue} \cup {NullValue}

\* to_bool(const bool value), which an int32_t converts to, and
\* to_bool(const NullValue&).
to_bool(value) == IF value.type = "NullValue" THEN FALSE ELSE value.value # 0

\* The conversion of an int32_t argument to bool in `a_value && b_null`.
IntToBool(value) == value.value # 0

\* Mutant: the result is null whenever an operand is.
MutantTernaryOr_NullWins(av, an, bv, bn) ==
  LET a_is_true == ~an /\ to_bool(av)
      b_is_true == ~bn /\ to_bool(bv)
  IN  [result_value |-> BoolToInt(a_is_true \/ b_is_true), result_null |-> (an \/ bn)]

\* TernaryOr::operator(): result_value, of the type int32_t, and result_null.
TernaryOr(av, an, bv, bn) ==
  LET a_is_true == ~an /\ to_bool(av)
      b_is_true == ~bn /\ to_bool(bv)
      value == a_is_true \/ b_is_true
  IN  [result_value |-> BoolToInt(value), result_null |-> ((an \/ bn) /\ ~value)]

\* Mutant: the result is null only if both operands are.
MutantTernaryAnd_BothNull(av, an, bv, bn) ==
  LET a_is_true == ~an /\ to_bool(av)
      b_is_true == ~bn /\ to_bool(bv)
  IN  [result_value |-> BoolToInt(a_is_true /\ b_is_true), result_null |-> (an /\ bn)]

\* TernaryAnd::operator(): result_value, of the type int32_t, and result_null.
TernaryAnd(av, an, bv, bn) ==
  LET a_is_true == ~an /\ to_bool(av)
      b_is_true == ~bn /\ to_bool(bv)
      null0 == an /\ bn
      null1 == IF av.type # "NullValue" THEN null0 \/ (IntToBool(av) /\ bn) ELSE null0
      null2 == IF bv.type # "NullValue" THEN null1 \/ (IntToBool(bv) /\ an) ELSE null1
  IN  [result_value |-> BoolToInt(a_is_true /\ b_is_true), result_null |-> null2]

\* The operands of a logic functor, with their null flags.
InitLogic ==
  /\ a_value \in OperandValues
  /\ a_null \in BOOLEAN
  /\ b_value \in OperandValues
  /\ b_null \in BOOLEAN
  /\ result_value = 0
  /\ result_null = FALSE
  /\ left = << >>
  /\ chunk_id = 0
  /\ matches_out = << >>
  /\ before = << >>
  /\ op = "none"
  /\ LoopIdle
  /\ SearchIdle
  /\ ConcIdle
  /\ IterIdle
  /\ ResultIdle

notLogicVars == << inputVars, matches_out, before, loopVars, searchVars, concVars, iterVars, resultVars >>

ApplyTernaryAnd ==
  /\ op = "none"
  /\ LET result == TernaryAnd(a_value, a_null, b_value, b_null)
     IN  /\ result_value' = result.result_value
         /\ result_null' = result.result_null
  /\ op' = "TernaryAnd"
  /\ UNCHANGED << a_value, a_null, b_value, b_null, notLogicVars >>

ApplyTernaryOr ==
  /\ op = "none"
  /\ LET result == TernaryOr(a_value, a_null, b_value, b_null)
     IN  /\ result_value' = result.result_value
         /\ result_null' = result.result_null
  /\ op' = "TernaryOr"
  /\ UNCHANGED << a_value, a_null, b_value, b_null, notLogicVars >>

NextLogic ==
  \/ ApplyTernaryAnd
  \/ ApplyTernaryOr

SpecLogic == InitLogic /\ [][NextLogic]_vars

\* ------------------------------------------------------- ExpressionResult
\* An ExpressionResult holds the public vectors values and nulls. as_view
\* resolves it to one of three views and hands the view to a functor, which
\* queries the view by index.

MaxResultLen == 3

\* T is int; T{} is 0.
DefaultValue == 0
ResultValues == {DefaultValue, 1}
ValueVectors == UNION {[1 .. n -> ResultValues] : n \in 0 .. MaxResultLen}
NullVectors == UNION {[1 .. n -> BOOLEAN] : n \in 0 .. MaxResultLen}

\* DebugAssert(expr, msg): whether it stops the program. It is compiled out
\* unless the build is a debug build.
DebugAssert(is_debug, expr) == is_debug /\ ~expr

\* A vector after std::move handed its content to another vector: empty.
MovedFrom(vector) == << >>

\* ExpressionResult(std::vector<T> values, std::vector<bool> nulls): the
\* members are move-constructed from the parameters, then the body's
\* DebugAssert names values and nulls, which in the body are the parameters.
ExpressionResult(values_arg, nulls_arg, is_debug) ==
  LET values_member == values_arg
      nulls_member == nulls_arg
      values_param == MovedFrom(values_arg)
      nulls_param == MovedFrom(nulls_arg)
  IN [values |-> values_member,
      nulls |-> nulls_member,
      assert_failed |-> DebugAssert(is_debug, nulls_param = << >> \/ Len(nulls_param) = Len(values_param))]

\* make_null(): ExpressionResult<T> null_value({{T{}}}, {true}).
make_null(is_debug) == ExpressionResult(<< DefaultValue >>, << TRUE >>, is_debug)

size == Len(values)
is_nullable == nulls # << >>

Min(a, b) == IF a < b THEN a ELSE b

\* value(idx) and is_null(idx), idx counted from 0.
ExpressionResult_value(idx) == values[Min(idx, Len(values) - 1) + 1]
ExpressionResult_is_null(idx) == IF nulls = << >> THEN FALSE ELSE nulls[Min(idx, Len(nulls) - 1) + 1]

\* The three views. A view keeps references to what it was built from.
ExpressionResultLiteral(v, n) == [kind |-> "Literal", values |-> << v >>, nulls |-> << n >>]
ExpressionResultNonNullSeries(vs) == [kind |-> "NonNullSeries", values |-> vs, nulls |-> << >>]
ExpressionResultNullableSeries(vs, ns) == [kind |-> "NullableSeries", values |-> vs, nulls |-> ns]

\* as_view(fn): the view fn is called with.
as_view ==
  IF size = 1
  THEN ExpressionResultLiteral(values[1], is_nullable /\ nulls[1])
  ELSE IF Len(nulls) = 1 /\ nulls[1]
  THEN ExpressionResultLiteral(DefaultValue, TRUE)
  ELSE IF ~is_nullable
  THEN ExpressionResultNonNullSeries(values)
  ELSE ExpressionResultNullableSeries(values, nulls)

\* A view's value(idx) and is_null(idx) do no bounds checking: a literal
\* answers every index with its one value, a series indexes its vectors. An
\* index past the end of a vector is undefined behaviour: any answer.
ViewPastTheEnd(v, idx) ==
  \/ v.kind # "Literal" /\ idx >= Len(v.values)
  \/ v.kind = "NullableSeries" /\ idx >= Len(v.nulls)

ViewValues(v, idx) ==
  IF v.kind = "Literal" THEN {v.values[1]}
  ELSE IF idx < Len(v.values) THEN {v.values[idx + 1]}
  ELSE ResultValues

ViewIsNulls(v, idx) ==
  IF v.kind = "Literal" THEN {v.nulls[1]}
  ELSE IF v.kind = "NonNullSeries" THEN {FALSE}
  ELSE IF idx < Len(v.nulls) THEN {v.nulls[idx + 1]}
  ELSE BOOLEAN

InitResult ==
  /\ ResultIdle
  /\ left = << >>
  /\ chunk_id = 0
  /\ matches_out = << >>
  /\ before = << >>
  /\ op = "none"
  /\ LoopIdle
  /\ SearchIdle
  /\ ConcIdle
  /\ IterIdle
  /\ LogicIdle

notResultVars == << inputVars, matches_out, before, right, func, LeftIsNullable, IsVectorizable, visited, blocks, remainder, searchVars, concVars, iterVars, logicVars >>

\* new ExpressionResult(values, nulls)
ConstructExpressionResult ==
  /\ op = "none"
  /\ \E values_arg \in ValueVectors, nulls_arg \in NullVectors, is_debug \in BOOLEAN :
       LET result == ExpressionResult(values_arg, nulls_arg, is_debug)
       IN /\ values' = result.values
          /\ nulls' = result.nulls
          /\ assert_failed' = result.assert_failed
          /\ IS_DEBUG' = is_debug
  /\ op' = "ExpressionResult"
  /\ UNCHANGED << view, view_read, notResultVars >>

\* ExpressionResult::make_null()
MakeNull ==
  /\ op = "none"
  /\ \E is_debug \in BOOLEAN :
       LET result == make_null(is_debug)
       IN /\ values' = result.values
          /\ nulls' = result.nulls
          /\ assert_failed' = result.assert_failed
          /\ IS_DEBUG' = is_debug
  /\ op' = "make_null"
  /\ UNCHANGED << view, view_read, notResultVars >>

\* result.as_view(fn): fn keeps the view.
AsView ==
  /\ op \in {"ExpressionResult", "make_null"}
  /\ ~assert_failed
  /\ view' = as_view
  /\ op' = "as_view"
  /\ UNCHANGED << values, nulls, assert_failed, view_read, IS_DEBUG, notResultVars >>

\* fn queries the view at an index below size().
QueryView ==
  /\ op = "as_view"
  /\ \E idx \in 0 .. size - 1 :
       \E v \in ViewValues(view, idx), n \in ViewIsNulls(view, idx) :
         view_read' = [idx |-> idx, value |-> v, is_null |-> n, past_the_end |-> ViewPastTheEnd(view, idx)]
  /\ op' = "view"
  /\ UNCHANGED << values, nulls, assert_failed, view, IS_DEBUG, notResultVars >>

NextResult ==
  \/ ConstructExpressionResult
  \/ MakeNull
  \/ AsView
  \/ QueryView

SpecResult == InitResult /\ [][NextResult]_vars

\* ------------------------------------------------------------- properties
\* The entries the last call appended to matches_out.
Appended == SubSeq(matches_out, Len(before) + 1, Len(matches_out))

ChunkOffsetsOf(pos_list) == [k \in 1 .. Len(pos_list) |-> pos_list[k].chunk_offset]
SetOf(seq) == {seq[k] : k \in 1 .. Len(seq)}

\* The iteration the last call of scan_sorted_segment handed to the functor, as
\* indices into left (empty when the functor was not called).
Handed == IF functor_args = << >> THEN << >> ELSE functor_args[1]
HandedOffsets == {left[i].chunk_offset : i \in SetOf(Handed)}

\* The position of left with the given chunk offset.
PositionAt(offset) == left[offset + 1]

HasNull(segment) == \E i \in 1 .. Len(segment) : segment[i].is_null
NonNullOffsets == {left[i].chunk_offset : i \in {j \in 1 .. Len(left) : ~left[j].is_null}}

StrictlyIncreasing(seq) == \A k \in 1 .. Len(seq) - 1 : seq[k] < seq[k + 1]

AfterSortedScan == op = "scan_sorted_segment"

\* C1: for every supported predicate condition, OrderByMode, search value and
\* segment sorted by that mode, the positions scan_sorted_segment hands to its
\* functor are the positions a plain _unary_scan with the equivalent comparison
\* emits over the whole, unnarrowed range.
C1_NarrowedEqualsPlainScan ==
  (AfterSortedScan /\ _predicate_condition \in SupportedConditions) =>
    HandedOffsets =
      SetOf(ChunkOffsetsOf(_unary_scan([condition |-> _predicate_condition, value |-> _search_value], left, IteratorRange(left_begin, left_end), chunk_id, << >>)))

\* C1 witness: a descending segment with nulls and duplicates of which an
\* Equals search kept a run of two positions.
C1_Witness ==
  /\ AfterSortedScan
  /\ _predicate_condition = "Equals"
  /\ ~_is_ascending
  /\ HasNull(left)
  /\ Cardinality(HandedOffsets) = 2
  /\ Len(left) = MaxSortedLen

AfterScanLoop == op \in {"_unary_scan", "_unary_scan_with_value", "_binary_scan"}

\* No entry the last call appended, and no position it handed to the functor,
\* is a null position of left.
NoNullEmitted ==
  /\ \A k \in 1 .. Len(Appended) : ~PositionAt(Appended[k].chunk_offset).is_null
  /\ \A i \in SetOf(Handed) : ~left[i].is_null

C3_StrictlyIncreasing ==
  ((AfterScanLoop \/ AfterSortedScan) /\ before = << >>) =>
    StrictlyIncreasing(ChunkOffsetsOf(matches_out))

\* C3 witness: a NotEquals search handed the functor two sub-ranges around the
\* run of the search value, and their positions were emitted.
C3_Witness ==
  /\ AfterSortedScan
  /\ before = << >>
  /\ _predicate_condition = "NotEquals"
  /\ Len(Handed) >= 2
  /\ \E k \in 1 .. Len(Handed) - 1 : Handed[k + 1] > Handed[k] + 1
  /\ Len(matches_out) = Len(Handed)

\* The positions scan_sorted_segment hands to the functor for Equals, on the
\* whole segment with the order and the search value of the object.
EqualsHandedOffsets ==
  LET result == scan_sorted_segment(left, left_begin, left_end, "Equals", _search_value, _is_ascending, _is_nulls_first)
  IN  {left[i].chunk_offset : i \in SetOf(result.functor_args[1])}

\* C4: the positions handed to the functor for NotEquals are the positions of
\* the null-free range without those handed to it for Equals with the same
\* range and search value: the two are disjoint and together the null-free range.
C4_NotEqualsComplement ==
  (AfterSortedScan /\ _predicate_condition = "NotEquals") =>
    /\ HandedOffsets \cap EqualsHandedOffsets = {}
    /\ HandedOffsets \cup EqualsHandedOffsets = NonNullOffsets

\* C4 witness: a NotEquals search on a segment with nulls where the search value
\* occurs and values on both sides of it remain.
C4_Witness ==
  /\ AfterSortedScan
  /\ _predicate_condition = "NotEquals"
  /\ HasNull(left)
  /\ EqualsHandedOffsets # {}
  /\ Cardinality(HandedOffsets) >= 2
  /\ \E k \in 1 .. Len(Handed) - 1 : Handed[k + 1] > Handed[k] + 1

\* C5: _unary_scan_with_value appends the same sequence of RowIDs when the
\* block-buffered path is taken as when only the scalar loop runs, for every
\* length, null pattern and comparison.
C5_BlockPathEqualsScalarPath ==
  op = "_unary_scan_with_value" =>
    matches_out =
      _unary_scan_with_value(FALSE, LeftIsNullable, func.condition, left, left_begin, left_end, func.value, chunk_id, before).matches_out

\* C5 witness: two blocks and a remainder ran over a range with nulls, matches
\* and non-matches.
C5_Witness ==
  /\ op = "_unary_scan_with_value"
  /\ ~IS_DEBUG /\ IsVectorizable
  /\ blocks = 2
  /\ remainder = 1
  /\ LeftIsNullable
  /\ HasNull(left)
  /\ Appended # << >>
  /\ Len(Appended) < Len(left)

\* C5 witness: the length is an exact multiple of the block size.
C5_WitnessMultiple ==
  /\ op = "_unary_scan_with_value"
  /\ ~IS_DEBUG /\ IsVectorizable
  /\ Len(left) = 2 * BUFFER_SIZE
  /\ blocks >= 1
  /\ Appended # << >>

\* C7: scan_sorted_segment fails exactly for the predicate conditions other than
\* the six supported ones, for either sort direction, and a failed call does not
\* invoke the functor and emits nothing.
C7_UnsupportedPredicateFails ==
  AfterSortedScan =>
    /\ failed <=> _predicate_condition \notin SupportedConditions
    /\ failed => (functor_args = << >> /\ matches_out = before)
    /\ ~failed => Len(functor_args) = 1

\* C7 witness: a failed call on a descending segment with rows.
C7_Witness ==
  /\ AfterSortedScan
  /\ failed
  /\ ~_is_ascending
  /\ Len(left) >= 2

\* The indices at which _binary_scan has to emit.
BinaryMatchIndices ==
  SelectSeq(IteratorRange(left_begin, left_end),
            LAMBDA i : ~left[i].is_null /\ ~right[i].is_null
                       /\ Compare(func.condition, left[i].value, right[i].value))

\* C10: for two ranges of equal length _binary_scan visits index i of both
\* together, for every i exactly once, and appends RowID{chunk_id, left
\* chunk_offset} exactly for the i where neither side is null and the functor
\* holds of the two values.
C10_BinaryScan ==
  op = "_binary_scan" =>
    /\ visited = [i \in 1 .. Len(left) |-> << i, i >>]
    /\ Appended = [k \in 1 .. Len(BinaryMatchIndices) |-> RowID(chunk_id, left[BinaryMatchIndices[k]].chunk_offset)]
    /\ \A k \in 1 .. Len(Appended) :
         ~PositionAt(Appended[k].chunk_offset).is_null /\ ~right[Appended[k].chunk_offset + 1].is_null

\* C10 witness: of two positions one was skipped for a null on the right side
\* only, and one was appended.
C10_Witness ==
  /\ op = "_binary_scan"
  /\ Len(left) = 2
  /\ Len(Appended) = 1
  /\ \E i \in 1 .. 2 : right[i].is_null /\ ~left[i].is_null

\* The scan call of a task has returned.
Returned(call) == call.left_it = call.left_end /\ call.pc = "loop"

\* The PosList the call produces when it runs alone, from its arguments.
PosListAlone(call) ==
  CASE call.kind = "_unary_scan" ->
         _unary_scan(call.func, call.left, IteratorRange(1, call.left_end), call.chunk_id, << >>)
    [] call.kind = "_unary_scan_with_value" ->
         _unary_scan_with_value(TRUE, TRUE, call.func.condition, call.left, 1, call.left_end, call.func.value, call.chunk_id, << >>).matches_out
    [] call.kind = "_binary_scan" ->
         _binary_scan(call.func.condition, call.left, 1, call.left_end, call.right, 1, call.chunk_id, << >>).matches_out

IsPrefix(a, b) == Len(a) <= Len(b) /\ a = SubSeq(b, 1, Len(a))

\* A step of the concurrent calls is a step of one call: it leaves the state
\* of every other call, its buffer included, and the arguments of its own call
\* as they are.
StepOfOneCall ==
  \E task \in Tasks :
    /\ \A other \in Tasks \ {task} : calls'[other] = calls[other] /\ buffers'[other] = buffers[other]
    /\ calls'[task].left = calls[task].left
    /\ calls'[task].right = calls[task].right

\* C6: in every interleaving of the steps of concurrent scan calls, each over its
\* own chunk and its own PosList, the PosList of every call grows along the one
\* the call produces alone and equals it when the call returns, and no step
\* changes the state of another call.
C6_ConcurrentScansIndependent ==
  /\ [](\A task \in Tasks :
          /\ IsPrefix(calls[task].matches_out, PosListAlone(calls[task]))
          /\ Returned(calls[task]) => calls[task].matches_out = PosListAlone(calls[task]))
  /\ [][StepOfOneCall]_concVars

\* C6 witness: two calls are in a block of the vectorized loop at once, each
\* with its buffer filled and different from the other's, and one call has
\* appended entries.
C6_Witness ==
  /\ calls # << >>
  /\ calls[1].pc = "collect"
  /\ calls[2].pc = "collect"
  /\ buffers[1] # buffers[2]
  /\ buffers[1] # ZeroBuffer

\* C6 witness: all calls returned, after a block and a remainder in two of them,
\* with different results.
C6_WitnessReturned ==
  /\ calls # << >>
  /\ \A task \in Tasks : Returned(calls[task])
  /\ calls[1].kind = "_unary_scan_with_value" /\ Len(calls[1].left) > BUFFER_SIZE
  /\ calls[2].kind = "_unary_scan_with_value" /\ Len(calls[2].left) > BUFFER_SIZE
  /\ ChunkOffsetsOf(calls[1].matches_out) # ChunkOffsetsOf(calls[2].matches_out)

\* The outcome of the last segment iteration call under the given resolution
\* strategy of a release build and the given data type parameter.
IterationOutcome(type, erasure) ==
  CASE op = "segment_with_iterators" -> segment_with_iterators(type, erasure, FALSE, base_segment)
    [] op = "segment_with_iterators(position_filter)" -> segment_with_iterators_filter(type, erasure, FALSE, base_segment, position_filter)
    [] op = "segment_for_each" -> segment_for_each(type, erasure, FALSE, base_segment)
    [] op = "segment_for_each(position_filter)" -> segment_for_each_filter(type, erasure, FALSE, base_segment, position_filter)

AfterIteration ==
  op \in {"segment_with_iterators", "segment_with_iterators(position_filter)", "segment_for_each", "segment_for_each(position_filter)"}

CapabilityNotSupported ==
  {"Cannot access non-PointAccessibleSegmentIterable with position_filter", "capability-not-supported"}

Truth(value, null) == IF null THEN "NULL" ELSE IF to_bool(value) THEN "TRUE" ELSE "FALSE"

\* AND and OR of SQL's three-valued logic.
SqlAnd(x, y) ==
  IF x = "FALSE" \/ y = "FALSE" THEN "FALSE"
  ELSE IF x = "TRUE" /\ y = "TRUE" THEN "TRUE"
  ELSE "NULL"

SqlOr(x, y) ==
  IF x = "TRUE" \/ y = "TRUE" THEN "TRUE"
  ELSE IF x = "FALSE" /\ y = "FALSE" THEN "FALSE"
  ELSE "NULL"

\* result_value and result_null stand for the truth value.
ResultIs(truth) ==
  CASE truth = "FALSE" -> ~result_null /\ result_value = 0
    [] truth = "TRUE" -> ~result_null /\ result_value = 1
    [] truth = "NULL" -> result_null

\* The values an operand may carry with the null flag it has: any, if the flag
\* is set.
CarriedValues(value, null) == IF null THEN OperandValues ELSE {value}

ThisResult == [result_value |-> result_value, result_null |-> result_null]

\* C11: TernaryAnd gives the AND of SQL's three-valued logic for the nine
\* combinations of TRUE, FALSE and NULL operands, and its outcome does not
\* depend on the value an operand with a set null flag carries.
C11_TernaryAnd ==
  op = "TernaryAnd" =>
    /\ ResultIs(SqlAnd(Truth(a_value, a_null), Truth(b_value, b_null)))
    /\ \A av \in CarriedValues(a_value, a_null), bv \in CarriedValues(b_value, b_null) :
         TernaryAnd(av, a_null, bv, b_null) = ThisResult

\* C11 witness: TRUE AND NULL, the null operand carrying a nonzero int32_t,
\* gave NULL.
C11_Witness ==
  /\ op = "TernaryAnd"
  /\ ~a_null /\ a_value.type = "int32_t" /\ a_value.value = MaxOperandValue
  /\ b_null /\ b_value.type = "int32_t" /\ b_value.value = 1
  /\ result_null

\* C12: TernaryOr gives the OR of SQL's three-valued logic for the nine
\* combinations of TRUE, FALSE and NULL operands, and its outcome does not
\* depend on the value an operand with a set null flag carries.
C12_TernaryOr ==
  op = "TernaryOr" =>
    /\ ResultIs(SqlOr(Truth(a_value, a_null), Truth(b_value, b_null)))
    /\ \A av \in CarriedValues(a_value, a_null), bv \in CarriedValues(b_value, b_null) :
         TernaryOr(av, a_null, bv, b_null) = ThisResult

\* C12 witness: NULL OR TRUE, the null operand carrying a nonzero int32_t,
\* gave TRUE.
C12_Witness ==
  /\ op = "TernaryOr"
  /\ a_null /\ a_value.type = "int32_t" /\ a_value.value = 1
  /\ ~b_null /\ b_value.type = "int32_t" /\ b_value.value = MaxOperandValue
  /\ ~result_null /\ result_value = 1

\* The first call of scan_sorted_segment on the object has returned.
AfterFirstSortedScan == AfterSortedScan /\ scan_calls = 1

\* The working range of the first call after its null-exclusion step.
NullFree == ExcludeNulls(left, left_begin, left_end, _is_nulls_first)

\* The bounds of the search value in the null-free range.
FirstBound == _get_first_bound(left, NullFree.begin, NullFree.end, _search_value, _is_ascending)
LastBound == _get_last_bound(left, NullFree.begin, NullFree.end, _search_value, _is_ascending)

NullFreeIndices == NullFree.begin .. (NullFree.end - 1)
NonNullIndices == {i \in 1 .. Len(left) : ~left[i].is_null}

\* The positions of the null-free range whose value is the search value.
Matching == {i \in NullFreeIndices : left[i].value = _search_value}

\* C13: for each OrderByMode and every segment sorted by it, the working range
\* after the null-exclusion step of scan_sorted_segment holds every non-null
\* position and no null position; only _begin moves when nulls are first, only
\* _end when nulls are last.  (For NotEquals this range is [_begin, _end) after
\* the call; for the other conditions [_begin, _end) lies in it.)
C13_NullExclusionStep ==
  AfterFirstSortedScan =>
    /\ NullFreeIndices = NonNullIndices
    /\ _is_nulls_first => NullFree.end = left_end
    /\ ~_is_nulls_first => NullFree.begin = left_begin
    /\ NullFree.begin <= _begin /\ _end <= NullFree.end
    /\ _predicate_condition = "NotEquals" => (_begin = NullFree.begin /\ _end = NullFree.end)

\* C13 witness: a NotEquals call on a nulls-last segment with null and non-null
\* rows moved _end and left _begin.
C13_Witness ==
  /\ AfterFirstSortedScan
  /\ _predicate_condition = "NotEquals"
  /\ order_by = "DescendingNullsLast"
  /\ HasNull(left)
  /\ _begin = left_begin
  /\ left_begin < _end /\ _end < left_end

InFront(value) == IF _is_ascending THEN value < _search_value ELSE value > _search_value

C15_BoundsEncloseMatches ==
  AfterFirstSortedScan =>
    /\ FirstBound <= LastBound
    /\ SetOf(IteratorRange(FirstBound, LastBound)) = Matching
    /\ NullFree.begin <= FirstBound /\ LastBound <= NullFree.end

\* C15 witness: a run of two equal values inside a descending range, with
\* values in front of and behind it.
C15_Witness ==
  /\ AfterFirstSortedScan
  /\ ~_is_ascending
  /\ Cardinality(Matching) = 2
  /\ NullFree.begin < FirstBound
  /\ LastBound < NullFree.end
  /\ LastBound = FirstBound + 2

Inequalities == {"LessThan", "LessThanEquals", "GreaterThan", "GreaterThanEquals"}

\* The end of the null-free range an inequality moves, and the bound it moves
\* it to, by sort direction.
MovedEnd(condition, is_ascending) ==
  IF is_ascending
    THEN CASE condition = "GreaterThanEquals" -> [moves |-> "begin", to |-> FirstBound]
           [] condition = "GreaterThan" -> [moves |-> "begin", to |-> LastBound]
           [] condition = "LessThanEquals" -> [moves |-> "end", to |-> LastBound]
           [] condition = "LessThan" -> [moves |-> "end", to |-> FirstBound]
    ELSE CASE condition = "GreaterThanEquals" -> [moves |-> "end", to |-> LastBound]
           [] condition = "GreaterThan" -> [moves |-> "end", to |-> FirstBound]
           [] condition = "LessThanEquals" -> [moves |-> "begin", to |-> FirstBound]
           [] condition = "LessThan" -> [moves |-> "begin", to |-> LastBound]

\* C16: for the four inequalities _set_begin_and_end sets one end of the
\* null-free range, to the bound the table gives for the sort direction, and
\* leaves the other end as it is; for Equals it sets _begin to the first and
\* _end to the last bound in either direction.
C16_BeginEndTable ==
  AfterFirstSortedScan =>
    /\ _predicate_condition \in Inequalities =>
         LET moved == MovedEnd(_predicate_condition, _is_ascending)
         IN  IF moved.moves = "begin"
               THEN _begin = moved.to /\ _end = NullFree.end
               ELSE _end = moved.to /\ _begin = NullFree.begin
    /\ _predicate_condition = "Equals" => (_begin = FirstBound /\ _end = LastBound)

\* C16 witness: GreaterThan on a descending range moved _end to the first
\* bound, inside the range, and left _begin.
C16_Witness ==
  /\ AfterFirstSortedScan
  /\ ~_is_ascending
  /\ _predicate_condition = "GreaterThan"
  /\ _begin = NullFree.begin
  /\ _end = FirstBound
  /\ FirstBound < LastBound
  /\ NullFree.begin < _end /\ _end < NullFree.end

\* C17: the early outs of _handle_not_equals do not change what the functor
\* receives: for every sorted null-free range and search value it is the
\* concatenation of [begin, first bound) and [last bound, end).
C17_EarlyOutsAreOptimizations ==
  (AfterSortedScan /\ _predicate_condition = "NotEquals") =>
    Handed = IteratorRange(_begin, _get_first_bound(left, _begin, _end, _search_value, _is_ascending))
               \o IteratorRange(_get_last_bound(left, _begin, _end, _search_value, _is_ascending), _end)

\* C17 witness: the third early out was taken: the run of the search value
\* starts the null-free range and ends inside it.
C17_Witness ==
  /\ AfterFirstSortedScan
  /\ _predicate_condition = "NotEquals"
  /\ FirstBound = NullFree.begin
  /\ FirstBound < LastBound
  /\ LastBound < NullFree.end
  /\ Handed = IteratorRange(LastBound, NullFree.end)

\* C18: for NotEquals scan_sorted_segment invokes the functor once, on an
\* iteration of at most two sub-ranges [begin, x) and [y, end) of the null-free
\* range with x <= y, so that the sub-ranges are disjoint, the first precedes
\* the second and the offsets increase strictly across the concatenation.
C18_NotEqualsOneOrderedIteration ==
  (AfterSortedScan /\ _predicate_condition = "NotEquals") =>
    /\ Len(functor_args) = 1
    /\ \E x \in _begin .. _end : \E y \in x .. _end :
         functor_args[1] = IteratorRange(_begin, x) \o IteratorRange(y, _end)
    /\ StrictlyIncreasing(functor_args[1])
    /\ StrictlyIncreasing([k \in 1 .. Len(functor_args[1]) |-> left[functor_args[1][k]].chunk_offset])

\* C18 witness: the functor was invoked on two non-empty sub-ranges around a
\* run of the search value.
C18_Witness ==
  /\ AfterSortedScan
  /\ _predicate_condition = "NotEquals"
  /\ Len(functor_args) = 1
  /\ _begin < FirstBound
  /\ FirstBound < LastBound
  /\ LastBound < _end
  /\ Len(functor_args[1]) = (FirstBound - _begin) + (_end - LastBound)

VectorizedPathEnabled == op = "_unary_scan_with_value" /\ ~IS_DEBUG /\ IsVectorizable

\* C19 as stated: with the vectorized path enabled, the range is consumed in
\* blocks of BUFFER_SIZE positions and the scalar loop is left a remainder of
\* fewer than BUFFER_SIZE positions, for every length of the range.
C19_Original ==
  VectorizedPathEnabled =>
    /\ blocks * BUFFER_SIZE + remainder = Len(left)
    /\ remainder < BUFFER_SIZE

\* What the loop condition `left_end - left_it > BUFFER_SIZE` gives instead: the
\* remainder is at most BUFFER_SIZE, and not empty unless the range is.
C19_RemainderAtMostOneBlock ==
  VectorizedPathEnabled =>
    /\ blocks * BUFFER_SIZE + remainder = Len(left)
    /\ remainder <= BUFFER_SIZE
    /\ Len(left) > 0 => remainder >= 1

\* A range of a whole number of blocks: its last block is left to the scalar loop.
C19_FullBlockScalar ==
  /\ VectorizedPathEnabled
  /\ Len(left) = 2 * BUFFER_SIZE
  /\ blocks = 1
  /\ remainder = BUFFER_SIZE

\* The result of the first call of scan_sorted_segment on the object.
FirstScan ==
  scan_sorted_segment(left, left_begin, left_end, _predicate_condition, _search_value, _is_ascending, _is_nulls_first)

\* C20: a second (and later) call of scan_sorted_segment on the same object,
\* whose _begin and _end the earlier call overwrote, hands the functor the same
\* positions as the first call (and fails if the first did), for every
\* predicate condition, OrderByMode, sorted segment and search value.
C20_NarrowingIdempotent ==
  (AfterSortedScan /\ scan_calls >= 2) =>
    /\ functor_args = FirstScan.functor_args
    /\ failed = FirstScan.failed
    /\ _begin = FirstScan.begin
    /\ _end = FirstScan.end

\* C20 witness: the second call of a GreaterThan search on an ascending segment
\* with nulls and with values on both sides of the boundary.
C20_Witness ==
  /\ AfterSortedScan
  /\ scan_calls = 2
  /\ _predicate_condition = "GreaterThan"
  /\ _is_ascending
  /\ HasNull(left)
  /\ Handed # << >>
  /\ NullFree.begin < _begin

\* C21: _unary_scan, _unary_scan_with_value and _binary_scan only append to
\* matches_out: the entries it held before the call are a prefix of it after
\* the call, every appended RowID carries the chunk_id of the call, and at
\* most as many entries are appended as the scanned range is long.
C21_ScansOnlyAppend ==
  AfterScanLoop =>
    /\ IsPrefix(before, matches_out)
    /\ \A k \in 1 .. Len(Appended) : Appended[k].chunk_id = chunk_id
    /\ Len(Appended) <= Len(left)

\* C21 witness: _unary_scan appended an entry for every position of the range
\* to a PosList that held an entry.
C21_Witness ==
  /\ op = "_unary_scan"
  /\ before # << >>
  /\ Len(left) = MaxLen
  /\ Len(Appended) = Len(left)
  /\ matches_out[1] = before[1]

\* An ExpressionResult state the class documentation lists as legal: one or
\* many values, with no nulls, one null or one null per value.
LegalResult ==
  /\ Len(values) >= 1
  /\ \/ nulls = << >>
     \/ Len(nulls) = 1
     \/ Len(nulls) = Len(values)

ViewHandedOut == op \in {"as_view", "view"}
AfterQuery == op = "view"

\* Many values with the one null flag false.
OneFalseForMany == Len(values) > 1 /\ Len(nulls) = 1 /\ ~nulls[1]

\* C22: for every legal ExpressionResult the view handed out by as_view
\* reports at every idx < size() the value and null flag of value(idx) and
\* is_null(idx), and a nullable-series view has one null per value, so no
\* query reads past the end of values or nulls.
C22_Original ==
  (ViewHandedOut /\ LegalResult) =>
    /\ view.kind = "NullableSeries" => Len(view.nulls) = Len(view.values)
    /\ AfterQuery =>
         /\ ~view_read.past_the_end
         /\ view_read.value = ExpressionResult_value(view_read.idx)
         /\ view_read.is_null = ExpressionResult_is_null(view_read.idx)

\* C22, the failing state: as_view built a nullable series over many values
\* and one null; the query past the end of nulls reported null where
\* is_null(idx) is false.
C22_FailingInput ==
  /\ AfterQuery
  /\ values = << 1, 1 >>
  /\ nulls = << FALSE >>
  /\ view = ExpressionResultNullableSeries(<< 1, 1 >>, << FALSE >>)
  /\ view_read.idx = 1
  /\ view_read.past_the_end
  /\ view_read.is_null
  /\ ~ExpressionResult_is_null(1)

\* C22, what holds: in every other legal state no query reads past the end,
\* the null flag is that of is_null(idx) and the value of an entry that is
\* not null is that of value(idx).
C22_OtherLegalStates ==
  (ViewHandedOut /\ LegalResult /\ ~OneFalseForMany) =>
    /\ view.kind = "NullableSeries" => Len(view.nulls) = Len(view.values)
    /\ AfterQuery =>
         /\ ~view_read.past_the_end
         /\ view_read.is_null = ExpressionResult_is_null(view_read.idx)
         /\ ~view_read.is_null => view_read.value = ExpressionResult_value(view_read.idx)

\* C22, what holds: a view over no nulls or one null per value reports the
\* value of value(idx) also for entries that are null.
C22_ValuesWhereSizesFit ==
  (AfterQuery /\ LegalResult /\ (size = 1 \/ Len(nulls) # 1)) =>
    view_read.value = ExpressionResult_value(view_read.idx)

AfterConstructor == op = "ExpressionResult"

\* C23: an ExpressionResult built through the (values, nulls) constructor has
\* as many nulls as values or no nulls at all: the constructor's assertion
\* rejects every other pair of arguments.
C23_Original ==
  (AfterConstructor /\ ~assert_failed) => (nulls = << >> \/ Len(nulls) = Len(values))

\* C23, the failing state: a debug build constructed an ExpressionResult of
\* two values and one null.
C23_FailingInput ==
  /\ AfterConstructor
  /\ IS_DEBUG
  /\ ~assert_failed
  /\ values = << 1, 1 >>
  /\ nulls = << TRUE >>

\* C23, what holds: the constructor's assertion fires for no arguments, in
\* no build, and make_null builds one value and one null.
C23_AssertionNeverFires ==
  /\ ~assert_failed
  /\ op = "make_null" => (values = << DefaultValue >> /\ nulls = << TRUE >>)

=============================================================================
